---- MODULE Spec2Model ----
(***************************************************************************)
(* Music2MP3: the batch engine of converter.py (Converter.convert_from_csv *)
(* and its per-track worker _process_one) as a state machine.              *)
(*                                                                         *)
(* One behaviour is one Converter configuration run over one job list,     *)
(* optionally followed by a second run of a fresh Converter (same options, *)
(* same destination folder).  The retrieval tool (yt-dlp) and the          *)
(* transcoder (ffmpeg) are the environment: what they write and the exit   *)
(* code they return are nondeterministic.                                  *)
(***************************************************************************)
EXTENDS Integers, Sequences, FiniteSets, TLC

\* ------------------------------------------------------------------ bounds

\* Largest number of jobs (filtered CSV rows) of a run.
MaxJobs == 2

\* Largest number of progress events followed per job.
MaxProgress == 2

\* ------------------------------------------------------- program constants

\* converter.py:116  max(1, min(8, ...))
MinWorkers == 1
MaxWorkers == 8
\* converter.py:416  return code standing for "tool not found"
ToolNotFoundCode == 127
\* converter.py:441  return code after proc.wait(timeout=20) raised
WaitFailedCode == 1

\* ------------------------------------------------------------------ inputs

\* Raw values of config["concurrency"]: below, inside and above the range.
ConcurrencyValues == {0, 2, 9}

\* Job lists: sequences of track identities (a track identity stands for one
\* (artist, title) pair and so for one sanitized base name); a track may occur
\* twice.  Lists that differ only by renaming tracks are listed once.
Canonical(s) ==
    \A i \in 1..Len(s) :
        s[i] <= 1 + Cardinality({s[k] : k \in 1..(i - 1)})

TrackLists ==
    { s \in UNION { [1..n -> 1..MaxJobs] : n \in 0..MaxJobs } : Canonical(s) }

\* What subprocess.Popen does with the yt-dlp command line on this machine:
\* it starts the tool, raises FileNotFoundError, or raises another OSError
\* (for instance PermissionError on a bundled binary without the x bit).
ToolStates == {"ok", "missing", "denied"}

\* The options of converter.py:109-116 that the engine branches on, and the
\* state of the tool.  BaseConfig is the default configuration with two
\* workers.
BaseConfig ==
    [ concurrency    |-> 2,
      prefix_numbers |-> FALSE,
      incremental    |-> TRUE,
      needs_aiff     |-> FALSE,
      generate_m3u   |-> TRUE,
      deep_search    |-> TRUE,
      tool           |-> "ok" ]

\* Every combination of numbering, incremental update and two-stage format;
\* every concurrency value, playlist switch and tool state on the base.
NamingConfigs ==
    { [BaseConfig EXCEPT !.prefix_numbers = p, !.incremental = i, !.needs_aiff = a] :
        p \in BOOLEAN, i \in BOOLEAN, a \in BOOLEAN }

Configs ==
    NamingConfigs
    \cup { [BaseConfig EXCEPT !.concurrency = c] : c \in ConcurrencyValues }
    \cup { [BaseConfig EXCEPT !.generate_m3u = FALSE] }
    \cup { [BaseConfig EXCEPT !.tool = t] : t \in ToolStates }

VARIABLES
    cfg,          \* options read by Converter.__init__, and the tool state
    tracks,       \* the filtered job list of the current run
    prevTracks,   \* the job list of the first run
    run,          \* 1 or 2: which run this is
    fsAtStart,    \* the destination folder when the current run started
    fs,           \* the destination folder: names of non-empty files
    cancel,       \* cancel_event.is_set()
    mainPc,       \* convert_from_csv: "start", "submit", "join", "returned"
                  \* (and "raised" where the GUI run is followed)
    nextIdx,      \* enumerate(tracks, start=1): next index to submit
    attempts,     \* per job: calls of _run_ytdlp_stream that reached Popen
    item,         \* per submitted future: the arguments (idx, dest) that
                  \* pool.submit captured for _process_one
    convInit,     \* payload "new" of the conv_init event, -1 before it
    pc,           \* per job: "new", "queued", "run", "stream", "wait", "fin"
                  \* (and, where the guarded append is followed step by
                  \* step: "lock", "read", "write")
    procSt,       \* per job: its yt-dlp child: "none", "alive", "exited", or
                  \* "abandoned" (alive after the worker's wait timed out)
                  \* and then "abandoned_exited"
    procCode,     \* per job: the child's exit code once exited
    termReq,      \* per job: proc.terminate() was called
    ev,           \* per job: item_cb events emitted by its worker, in order
    made_files,   \* self._made_files
    m3u,          \* lines of playlist.m3u8 as written by this run
    lastPct,      \* per job: "percent" of its latest progress event, in
                  \* tenths of a percent, -1 before the first one
    lockOwner,    \* the job whose worker holds _made_files_lock, 0: free
    local,        \* per job: the list its worker read inside the lock
    q,            \* gui.py: self._conv_q: the kinds of all the messages put
                  \* on the queue so far, in order
    taken,        \* gui.py: how many of them get_nowait() has returned
    convertBtn,   \* gui.py: TRUE iff self.convert_button is in state NORMAL
    csvPath,      \* gui.py: self.csv_path, the CSV file selected
    thPc,         \* gui.py: self._conv_thread: "idle" (no GUI run),
                  \* "running", "put" (terminal message queued), "dead"
    pollPc,       \* gui.py: _poll_conversion_queue: "none", "scheduled",
                  \* "drained" (queue found empty, is_alive not yet
                  \* tested), "stopped" (not rescheduled)
    convDone,     \* gui.py: self._conv_done
    controls,     \* gui.py: the controls are enabled (_set_controls)
    csvRows,      \* rows = _read_csv(csv_path): the rows of the CSV file
    jobs,         \* the result of _rows_to_jobs(rows), once computed
    srcArg,       \* per job: the source argument built for yt-dlp
    rowPc,        \* "rows" (read), then "jobs" (normalized)
    accessTok,    \* spotify_auth.py: self._access_token, 0: None
    refreshTok,   \* spotify_auth.py: self._refresh_token, 0: None
    expiresAt,    \* spotify_auth.py: self._expires_at
    now,          \* time.time(), in seconds since the PKCEAuth was made
    store,        \* spotify_auth.py: self._store: whether one was given,
                  \* whether keyring is importable, the token it holds
    lastCall,     \* the latest call of get_token: the branch it took, the
                  \* number of HTTP requests it sent, the refresh token of
                  \* the response (0: none), whether it returned
    apiPc,        \* spotify_api.py: position in one call of _get / _post
    method,       \* "GET" or "POST": which of the two is called
    wire,         \* HTTP requests sent on the network by the call so far
    sess,         \* calls of _SESSION.get / _SESSION.post made by the call
    retriesLeft,  \* urllib3 Retry: resends left in the current session call
    status,       \* status code of the latest response handed to the call
    supplierRaised, \* the explicit refresh of the call raised
    logLen,       \* log_viewer.py: number of records in the queue
    paused,       \* log_viewer.py: LogWindow.paused
    logPollPc,    \* log_viewer.py: _poll: "waiting" or "draining"
    lastEmit      \* the latest call of _TkLogHandler.emit and how it ended

\* spotify_api.py: one call of SpotifyClient._get or _post
apiVars == << apiPc, method, wire, sess, retriesLeft, status, supplierRaised >>

\* log_viewer.py: the queue between the logging handler and the log window
logVars == << logLen, paused, logPollPc, lastEmit >>

\* spotify_auth.py: the state of one PKCEAuth object and of its clock
authVars == << accessTok, refreshTok, expiresAt, now, store, lastCall >>

\* The variables of the services beside the converter and its GUI run.
svcVars == << authVars, apiVars, logVars >>

lockVars == << lockOwner, local >>

rowVars == << csvRows, jobs, srcArg, rowPc >>

pickVars == << convertBtn, csvPath >>
guiVars == << thPc, pollPc, convDone, controls, taken, pickVars >>

\* The variables that no step of convert_from_csv or of _process_one outside
\* the stream loop and the guarded append touches.
restVars == << lastPct, lockVars, guiVars, rowVars, svcVars >>

vars == << cfg, tracks, prevTracks, run, fsAtStart, fs, cancel, mainPc, nextIdx,
           item, attempts, convInit, pc, procSt, procCode, termReq, ev, made_files, m3u,
           q, restVars >>

Jobs == 1..Len(tracks)
JobIds == 1..MaxJobs

\* --------------------------------------------------------- pure functions

\* converter.py:116  max(1, min(8, int(config.get("concurrency", 3))))
Concurrency(c) ==
    LET lo == IF c < MaxWorkers THEN c ELSE MaxWorkers
    IN  IF lo > MinWorkers THEN lo ELSE MinWorkers

W == Concurrency(cfg.concurrency)

\* Faulty variant of DestName: the file name ignores the title.
DestNameIgnoresTitle(idx) ==
    [ num  |-> IF cfg.prefix_numbers THEN idx ELSE 0,
      base |-> 0,
      kind |-> "final" ]

\* converter.py:159-163  the final file of job idx: the sanitized pretty
\* title, prefixed with the index when prefix_numbers is on (num = 0: none).
DestName(idx) ==
    [ num  |-> IF cfg.prefix_numbers THEN idx ELSE 0,
      base |-> tracks[idx],
      kind |-> "final" ]

\* No work item yet: the future of this position was not submitted.
NoItem == [ idx |-> 0, dest |-> [ num |-> 0, base |-> 0, kind |-> "none" ] ]

\* Faulty variant of WorkItem: the rows are counted from 0.
WorkItemFromZero(i) == [ idx |-> i - 1, dest |-> DestName(i) ]

\* converter.py:155-167  pool.submit(self._process_one, idx, t, str(dest)):
\* the i-th iteration of enumerate(tracks, start=1) passes its index and the
\* destination computed from it
WorkItem(i) == [ idx |-> i, dest |-> DestName(i) ]

\* converter.py:199  dest_final = Path(dest_path) inside the worker
DestFinal(j) == item[j].dest

\* converter.py:202  dl_target: the final file, or <final>.tmp.wav for AIFF
DlTarget(j) ==
    IF cfg.needs_aiff THEN [DestFinal(j) EXCEPT !.kind = "tmp"]
                      ELSE DestFinal(j)

\* Faulty variant of SkipExisting: the incremental test never skips.
SkipExistingNever(idx) == FALSE

\* converter.py:208  incremental and dest exists and its size > 0
SkipExisting(idx) == cfg.incremental /\ DestFinal(idx) \in fs

\* The children of the run that are running.
Live(j) == procSt[j] \in {"alive", "abandoned"}

\* Jobs inside _process_one (between the pool handing them to a worker
\* thread and the return of _process_one).
Executing ==
    { j \in Jobs : pc[j] \in {"run", "stream", "wait", "lock", "read", "write"} }

\* Faulty variant of PoolHasIdleWorker: a thread is started per work item.
PoolUnbounded == TRUE

\* converter.py:154  ThreadPoolExecutor(max_workers=self.concurrency)
PoolHasIdleWorker == Cardinality(Executing) < W

\* Number of entries of the sequence s that equal f.
Count(s, f) == Cardinality({ i \in 1..Len(s) : s[i] = f })

\* converter.py:103-105, gui.py:480-485  status_cb and item_cb: the GUI run
\* wires them to self._conv_q.put(('status', s)) and
\* self._conv_q.put(('item', (k, d))); a Converter built without callbacks
\* has the defaults, which do nothing
Put(msgs) == IF thPc = "idle" THEN q ELSE q \o msgs

\* converter.py:205-264  item_cb(kind, {"idx": idx, ...}): the event carries
\* the index the worker was given, and the observer files it under it
Emit(j, e) == [ev EXCEPT ![item[j].idx] = Append(@, e)]

\* Faulty variant of Outcome: the cancellation test after the download is
\* dropped.
OutcomeNoCancelTest(code, cancelled, aiffOk) ==
    IF code = ToolNotFoundCode THEN "error_tool"
    ELSE IF code # 0 THEN "error"
    ELSE IF cfg.needs_aiff /\ ~aiffOk THEN "error_aiff"
    ELSE "done"

\* Faulty variant of Outcome: the failure of the AIFF conversion is
\* swallowed.
OutcomeAiffFailureIgnored(code, cancelled, aiffOk) ==
    IF cancelled THEN "cancel_all"
    ELSE IF code = ToolNotFoundCode THEN "error_tool"
    ELSE IF code # 0 THEN "error"
    ELSE "done"

\* Faulty variant of Outcome: code 127 is not told apart from the other
\* non-zero codes.
OutcomeToolCodeNotDistinct(code, cancelled, aiffOk) ==
    IF cancelled THEN "cancel_all"
    ELSE IF code # 0 THEN "error"
    ELSE IF cfg.needs_aiff /\ ~aiffOk THEN "error_aiff"
    ELSE "done"

\* converter.py:231-264  what _process_one reports once _run_ytdlp_stream
\* returned `code`.  The three "error" events differ by their message:
\* "error_tool" (yt-dlp not available), "error" (yt-dlp failed with code),
\* "error_aiff" (AIFF conversion failed).
Outcome(code, cancelled, aiffOk) ==
    IF cancelled THEN "cancel_all"
    ELSE IF code = ToolNotFoundCode THEN "error_tool"
    ELSE IF code # 0 THEN "error"
    ELSE IF cfg.needs_aiff /\ ~aiffOk THEN "error_aiff"
    ELSE "done"

\* converter.py:251-266  effect of the report on the folder and on
\* _made_files: a successful AIFF job gains the final file and loses the
\* intermediate one; every "done" job appends its file name.
FolderAfter(j, outcome) ==
    IF outcome = "done" /\ cfg.needs_aiff
        THEN (fs \cup {DestFinal(j)}) \ {DlTarget(j)}
        ELSE fs

\* Faulty variant of MadeAfter: the name is recorded whatever was reported.
MadeAfterAnyOutcome(j, outcome) == Append(made_files, DestFinal(j))

MadeAfter(j, outcome) ==
    IF outcome = "done" THEN Append(made_files, DestFinal(j)) ELSE made_files

\* ------------------------------------------------------------------- Init

\* No progress line seen, the lock free.
WorkersIdle ==
    /\ lastPct = [j \in JobIds |-> -1]
    /\ lockOwner = 0
    /\ local = [j \in JobIds |-> << >>]

\* No GUI run: no thread or poller, the controls enabled, the callbacks of
\* the Converter at their defaults.
GuiIdle ==
    /\ thPc = "idle"
    /\ pollPc = "none"
    /\ convDone = FALSE
    /\ controls = TRUE
    /\ q = << >>
    /\ taken = 0
    /\ convertBtn = TRUE
    /\ csvPath = 1

\* No CSV row to normalize or to resolve.
RowsIdle ==
    /\ csvRows = << >>
    /\ jobs = << >>
    /\ srcArg = << >>
    /\ rowPc = "jobs"

\* No get_token call yet.
NoCall == [ seq |-> 0, path |-> "none", ok |-> TRUE, net |-> 0, rt |-> 0 ]

\* spotify_auth.py:11-19  a PKCEAuth made without a token store
AuthIdle ==
    /\ accessTok = 0
    /\ refreshTok = 0
    /\ expiresAt = 0
    /\ now = 0
    /\ store = [ given |-> FALSE, keyring |-> FALSE, tok |-> 0 ]
    /\ lastCall = NoCall

\* No call of the Spotify client.
ApiIdle ==
    /\ apiPc = "idle"
    /\ method = "GET"
    /\ wire = 0
    /\ sess = 0
    /\ retriesLeft = 0
    /\ status = 0
    /\ supplierRaised = FALSE

\* log_viewer.py:143-155  the queue is empty, the window is not paused
LogIdle ==
    /\ logLen = 0
    /\ paused = FALSE
    /\ logPollPc = "waiting"
    /\ lastEmit = [ seq |-> 0, res |-> "none" ]

\* No Spotify client call, no log record.
ServicesIdle == AuthIdle /\ ApiIdle /\ LogIdle

\* converter.py:95-122  a fresh Converter and an empty destination folder
ConverterIdle ==
    /\ prevTracks = tracks
    /\ run = 1
    /\ fsAtStart = {}
    /\ fs = {}
    /\ cancel = FALSE
    /\ mainPc = "start"
    /\ nextIdx = 1
    /\ item = [j \in JobIds |-> NoItem]
    /\ attempts = [j \in JobIds |-> 0]
    /\ convInit = -1
    /\ pc = [j \in JobIds |-> "new"]
    /\ procSt = [j \in JobIds |-> "none"]
    /\ procCode = [j \in JobIds |-> 0]
    /\ termReq = [j \in JobIds |-> FALSE]
    /\ ev = [j \in JobIds |-> << >>]
    /\ made_files = << >>
    /\ m3u = << >>

Init ==
    /\ cfg \in Configs
    /\ tracks \in TrackLists
    /\ ConverterIdle
    /\ WorkersIdle
    /\ GuiIdle
    /\ RowsIdle
    /\ ServicesIdle

\* ---------------------------------------------------------- main thread

\* converter.py:146-149  conv_init is emitted with new = len(tracks)
Begin ==
    /\ mainPc = "start"
    /\ convInit' = Len(tracks)
    /\ mainPc' = "submit"
    /\ q' = Put(<< "item", "status" >>)
    /\ UNCHANGED << restVars, cfg, item, attempts, tracks, prevTracks, run, fsAtStart, fs, cancel, nextIdx,
                    pc, procSt, procCode, termReq, ev, made_files, m3u >>

\* converter.py:155-167  one iteration of the submit loop
Submit ==
    /\ mainPc = "submit"
    /\ IF nextIdx > Len(tracks) \/ cancel
          THEN /\ mainPc' = "join"
               /\ UNCHANGED << nextIdx, pc, item >>
          ELSE /\ pc' = [pc EXCEPT ![nextIdx] = "queued"]
               /\ item' = [item EXCEPT ![nextIdx] = WorkItem(nextIdx)]
               /\ nextIdx' = nextIdx + 1
               /\ UNCHANGED mainPc
    /\ UNCHANGED << restVars, q, cfg, attempts, tracks, prevTracks, run, fsAtStart, fs, cancel, convInit,
                    procSt, procCode, termReq, ev, made_files, m3u >>

\* Faulty variant of PoolDrained: the pool is left without waiting.
PoolLeftAtOnce == TRUE

\* converter.py:154, 169-175  as_completed and the end of the `with
\* ThreadPoolExecutor` block wait for every submitted future
PoolDrained == \A j \in Jobs : pc[j] \in {"new", "fin"}

\* converter.py:170-189  as_completed over the submitted futures (an
\* exception of a worker is swallowed), pool shutdown, playlist, return
JoinAndReturn ==
    /\ mainPc = "join"
    /\ PoolDrained
    /\ m3u' = IF cfg.generate_m3u /\ made_files # << >> THEN made_files ELSE << >>
    /\ mainPc' = "returned"
    /\ UNCHANGED << restVars, q, cfg, item, attempts, tracks, prevTracks, run, fsAtStart, fs, cancel, nextIdx,
                    convInit, pc, procSt, procCode, termReq, ev, made_files >>

\* ------------------------------------------------------------- workers

\* Faulty variant of Pending: a work item stays in the pool's queue while a
\* thread is already running it.
PendingWhileRunning(j) == pc[j] \in {"queued", "run"}

\* converter.py:165-166  pool.submit puts one work item per index in the
\* pool's queue; it is pending until a pool thread takes it
Pending(j) == pc[j] = "queued"

\* converter.py:193-205  a pool thread takes the oldest queued work item and
\* enters _process_one: return at once when cancelled, else emit "init"
StartJob(j) ==
    /\ Pending(j)
    /\ \A k \in Jobs : k < j => ~Pending(k)
    /\ PoolHasIdleWorker
    /\ IF cancel
          THEN /\ pc' = [pc EXCEPT ![j] = "fin"]
               /\ UNCHANGED ev
          ELSE /\ pc' = [pc EXCEPT ![j] = "run"]
               /\ ev' = Emit(j, "init")
    /\ q' = IF cancel THEN q ELSE Put(<< "item" >>)
    /\ UNCHANGED << restVars, cfg, item, attempts, tracks, prevTracks, run, fsAtStart, fs, cancel, mainPc,
                    nextIdx, convInit, procSt, procCode, termReq,
                    made_files, m3u >>

\* converter.py:207-213  incremental skip: "done" without a download
SkipJob(j) ==
    /\ pc[j] = "run"
    /\ SkipExisting(j)
    /\ ev' = Emit(j, "done")
    /\ made_files' = Append(made_files, DestFinal(j))
    /\ pc' = [pc EXCEPT ![j] = "fin"]
    /\ q' = Put(<< "item" >>)
    /\ UNCHANGED << restVars, cfg, item, attempts, tracks, prevTracks, run, fsAtStart, fs, cancel, mainPc,
                    nextIdx, convInit, procSt, procCode, termReq, m3u >>

\* converter.py:215-229, 403-413  the command is built and Popen starts yt-dlp
Spawn(j) ==
    /\ pc[j] = "run"
    /\ ~SkipExisting(j)
    /\ cfg.tool = "ok"
    /\ attempts' = [attempts EXCEPT ![j] = @ + 1]
    /\ procSt' = [procSt EXCEPT ![j] = "alive"]
    /\ pc' = [pc EXCEPT ![j] = "stream"]
    /\ q' = Put(<< "status" >>)
    /\ UNCHANGED << restVars, cfg, item, tracks, prevTracks, run, fsAtStart, fs, cancel, mainPc,
                    nextIdx, convInit, procCode, termReq, ev, made_files, m3u >>

\* converter.py:414-416, 231-243  Popen raises FileNotFoundError:
\* _run_ytdlp_stream returns 127 and _process_one reports at once
SpawnToolMissing(j) ==
    /\ pc[j] = "run"
    /\ ~SkipExisting(j)
    /\ cfg.tool = "missing"
    /\ attempts' = [attempts EXCEPT ![j] = @ + 1]
    /\ ev' = Emit(j, Outcome(ToolNotFoundCode, cancel, FALSE))
    /\ pc' = [pc EXCEPT ![j] = "fin"]
    /\ q' = Put(<< "status", "item" >>)
    /\ UNCHANGED << restVars, cfg, item, tracks, prevTracks, run, fsAtStart, fs, cancel, mainPc,
                    nextIdx, convInit, procSt, procCode, termReq,
                    made_files, m3u >>

\* converter.py:404-416, 170-175  Popen raises an OSError that is not
\* FileNotFoundError: nothing catches it in _run_ytdlp_stream or in
\* _process_one, the future holds it, and convert_from_csv drops it
SpawnRaises(j) ==
    /\ pc[j] = "run"
    /\ ~SkipExisting(j)
    /\ cfg.tool = "denied"
    /\ attempts' = [attempts EXCEPT ![j] = @ + 1]
    /\ pc' = [pc EXCEPT ![j] = "fin"]
    /\ q' = Put(<< "status" >>)
    /\ UNCHANGED << restVars, cfg, item, tracks, prevTracks, run, fsAtStart, fs, cancel, mainPc,
                    nextIdx, convInit, procSt, procCode, termReq, ev,
                    made_files, m3u >>

\* converter.py:426  if cancel_event.is_set(), after a non-empty line
CancelSeenAfterLine == cancel

\* converter.py:420-431  the worker receives a non-empty line; only then
\* does it look at the flag, and on a set flag it calls proc.terminate()
\* and leaves the loop.  (A line received while the flag is clear, and an
\* empty line at any time, leave the state as it is.)
ReadLine(j) ==
    /\ pc[j] = "stream"
    /\ procSt[j] = "alive"
    /\ CancelSeenAfterLine
    /\ termReq' = [termReq EXCEPT ![j] = TRUE]
    /\ pc' = [pc EXCEPT ![j] = "wait"]
    /\ UNCHANGED << restVars, q, cfg, item, attempts, tracks, prevTracks, run, fsAtStart, fs, cancel, mainPc,
                    nextIdx, convInit, procSt, procCode, ev, made_files, m3u >>

\* converter.py:420, 432-436  the output stream ends: the child exited, or
\* it closed its stdout and lives on
EndOfStream(j) ==
    /\ pc[j] = "stream"
    /\ pc' = [pc EXCEPT ![j] = "wait"]
    /\ UNCHANGED << restVars, q, cfg, item, attempts, tracks, prevTracks, run, fsAtStart, fs, cancel, mainPc,
                    nextIdx, convInit, procSt, procCode, termReq, ev,
                    made_files, m3u >>

\* ---------------------------------------------------- progress parsing

\* converter.py:369  \d{1,3}(?:\.\d)?  digits of the percentage
PctIntDigits == 3
PctFracDigits == 1

\* Lines of the child's output, after rstrip("\r\n"): the empty line, or a
\* bracketed tag, blanks, a number written as integer digits and (after a
\* dot, when there are any) fraction digits, "%", and then " of ..." or
\* something else.
EmptyLine == [ tag |-> "", int |-> << >>, frac |-> << >>, of |-> FALSE ]

LineTags == {"[download]", "[ExtractAudio]"}

IntParts == { << 5 >>, << 1, 0, 0 >>, << 2, 5, 0 >>, << 1, 0, 0, 0 >> }

FracParts == { << >>, << 5 >>, << 2, 5 >> }

Lines ==
    {EmptyLine} \cup
    [ tag : LineTags, int : IntParts, frac : FracParts, of : BOOLEAN ]

\* converter.py:368-371, 374  _RGX_PROGRESS.search(line): anchored at the
\* start, "[download]", one to three digits, at most one fraction digit,
\* "%", blanks, "of"
Matches(line) ==
    /\ line.tag = "[download]"
    /\ Len(line.int) \in 1..PctIntDigits
    /\ Len(line.frac) <= PctFracDigits
    /\ line.of

RECURSIVE DigitsValue(_)
DigitsValue(d) ==
    IF d = << >> THEN 0
    ELSE DigitsValue(SubSeq(d, 1, Len(d) - 1)) * 10 + d[Len(d)]

\* converter.py:376  pct = float(m.group("pct")), here in tenths
Pct(line) == DigitsValue(line.int) * 10 + DigitsValue(line.frac)

\* Faulty variant of InStreamLoop: lines are still read after the report.
InStreamLoopOrLater(j) == pc[j] \in {"stream", "wait", "fin"}

\* converter.py:420  the worker is inside `for raw in proc.stdout`
InStreamLoop(j) == pc[j] = "stream"

\* converter.py:420-431, 373-379  one iteration of the stream loop: an empty
\* line is skipped; any other line goes to _on_progress_line, which emits a
\* progress event when the line matches; then the flag is looked at, and on
\* a set flag proc.terminate() is called and the loop is left.
ReadAnyLine(j, line) ==
    /\ InStreamLoop(j)
    /\ Matches(line) => Count(ev[j], "progress") < MaxProgress
    /\ IF line # EmptyLine /\ Matches(line)
          THEN /\ ev' = Emit(j, "progress")
               /\ lastPct' = [lastPct EXCEPT ![j] = Pct(line)]
               /\ q' = Put(<< "item" >>)
          ELSE UNCHANGED << ev, lastPct, q >>
    /\ IF line # EmptyLine /\ CancelSeenAfterLine
          THEN /\ termReq' = [termReq EXCEPT ![j] = TRUE]
               /\ pc' = [pc EXCEPT ![j] = "wait"]
          ELSE UNCHANGED << termReq, pc >>
    /\ UNCHANGED << svcVars, lockVars, guiVars, rowVars, cfg, item, attempts, tracks, prevTracks, run,
                    fsAtStart, fs, cancel, mainPc, nextIdx, convInit, procSt,
                    procCode, made_files, m3u >>

\* Faulty variant of WaitCode: a wait that timed out counts as success.
WaitCodeTimeoutIsSuccess(j) ==
    IF procSt[j] = "exited" THEN procCode[j] ELSE 0

\* converter.py:438-441  return proc.wait(timeout=20), or 1 when it raised
WaitCode(j) ==
    IF procSt[j] = "exited" THEN procCode[j] ELSE WaitFailedCode

\* converter.py:438-441, 231-266  proc.wait(timeout=20) returns the exit
\* code, or raises TimeoutExpired and 1 is returned while the child lives
\* on; then _process_one reports.  aiffOk: the ffmpeg stage succeeded (it
\* cannot without its input file).
WaitAndReport(j, aiffOk) ==
    /\ pc[j] = "wait"
    /\ aiffOk => (cfg.needs_aiff /\ DlTarget(j) \in fs)
    /\ LET outcome == Outcome(WaitCode(j), cancel, aiffOk)
       IN  /\ ev' = Emit(j, outcome)
           /\ fs' = FolderAfter(j, outcome)
           /\ made_files' = MadeAfter(j, outcome)
    /\ procSt' = [procSt EXCEPT ![j] = IF @ = "alive" THEN "abandoned" ELSE @]
    /\ procCode' = [procCode EXCEPT ![j] = 0]
    /\ pc' = [pc EXCEPT ![j] = "fin"]
    /\ q' = Put(<< "item" >>)
    /\ UNCHANGED << restVars, cfg, item, attempts, tracks, prevTracks, run, fsAtStart, cancel, mainPc,
                    nextIdx, convInit, termReq, m3u >>

\* ------------------------------------------------- the guarded append

\* Faulty variant of LockFree: the append is not guarded.
LockNeverHeld == TRUE

\* converter.py:120, 211, 265  self._made_files_lock can be acquired
LockFree == lockOwner = 0

\* converter.py:231-264  as WaitAndReport, up to the report: a job that
\* reported 'done' still has to append its file name
ReportOutcome(j, aiffOk) ==
    /\ pc[j] = "wait"
    /\ aiffOk => (cfg.needs_aiff /\ DlTarget(j) \in fs)
    /\ LET outcome == Outcome(WaitCode(j), cancel, aiffOk)
       IN  /\ ev' = Emit(j, outcome)
           /\ fs' = FolderAfter(j, outcome)
           /\ pc' = [pc EXCEPT ![j] = IF outcome = "done" THEN "lock" ELSE "fin"]
    /\ procSt' = [procSt EXCEPT ![j] = IF @ = "alive" THEN "abandoned" ELSE @]
    /\ procCode' = [procCode EXCEPT ![j] = 0]
    /\ q' = Put(<< "item" >>)
    /\ UNCHANGED << restVars, cfg, item, attempts, tracks, prevTracks, run, fsAtStart,
                    cancel, mainPc, nextIdx, convInit, termReq, made_files, m3u >>

\* converter.py:207-210  as SkipJob, up to the report
SkipReport(j) ==
    /\ pc[j] = "run"
    /\ SkipExisting(j)
    /\ ev' = Emit(j, "done")
    /\ pc' = [pc EXCEPT ![j] = "lock"]
    /\ q' = Put(<< "item" >>)
    /\ UNCHANGED << restVars, cfg, item, attempts, tracks, prevTracks, run, fsAtStart, fs,
                    cancel, mainPc, nextIdx, convInit, procSt, procCode, termReq,
                    made_files, m3u >>

\* converter.py:211, 265  with self._made_files_lock: the worker blocks
\* until the lock is free and takes it
AcquireLock(j) ==
    /\ pc[j] = "lock"
    /\ LockFree
    /\ lockOwner' = j
    /\ pc' = [pc EXCEPT ![j] = "read"]
    /\ UNCHANGED << svcVars, lastPct, local, guiVars, rowVars, q, cfg, item, attempts, tracks, prevTracks,
                    run, fsAtStart, fs, cancel, mainPc, nextIdx, convInit, procSt,
                    procCode, termReq, ev, made_files, m3u >>

\* converter.py:212, 266  self._made_files.append(...), taken as a read of
\* the list followed by a write of the longer list: the read
ReadList(j) ==
    /\ pc[j] = "read"
    /\ local' = [local EXCEPT ![j] = made_files]
    /\ pc' = [pc EXCEPT ![j] = "write"]
    /\ UNCHANGED << svcVars, lastPct, lockOwner, guiVars, rowVars, q, cfg, item, attempts, tracks,
                    prevTracks, run, fsAtStart, fs, cancel, mainPc, nextIdx, convInit,
                    procSt, procCode, termReq, ev, made_files, m3u >>

\* converter.py:212-213, 266  the write, and the end of the with block,
\* which releases the lock; _process_one returns
WriteAndRelease(j) ==
    /\ pc[j] = "write"
    /\ made_files' = Append(local[j], DestFinal(j))
    /\ local' = [local EXCEPT ![j] = << >>]
    /\ lockOwner' = 0
    /\ pc' = [pc EXCEPT ![j] = "fin"]
    /\ UNCHANGED << svcVars, lastPct, guiVars, rowVars, q, cfg, item, attempts, tracks, prevTracks, run,
                    fsAtStart, fs, cancel, mainPc, nextIdx, convInit, procSt, procCode,
                    termReq, ev, m3u >>

\* --------------------------------------------------------- environment

\* The caller sets the shared cancellation event.
SetCancel ==
    /\ mainPc # "returned"
    /\ ~cancel
    /\ cancel' = TRUE
    /\ UNCHANGED << restVars, q, cfg, item, attempts, tracks, prevTracks, run, fsAtStart, fs, mainPc,
                    nextIdx, convInit, pc, procSt, procCode, termReq, ev,
                    made_files, m3u >>

\* Exit codes of a yt-dlp child: success, or any failure (an error of the
\* tool, or the negative code of a child ended by a signal).
ExitCodes == {0, 1}

\* A yt-dlp child ends by itself or because of SIGTERM, leaving its output
\* file (dl_target) behind or not.
ProcExit(j, code, wrote) ==
    /\ Live(j)
    /\ procSt' = [procSt EXCEPT ![j] = IF @ = "alive" THEN "exited" ELSE "abandoned_exited"]
    /\ procCode' = [procCode EXCEPT ![j] = IF procSt[j] = "alive" THEN code ELSE 0]
    /\ fs' = IF wrote THEN fs \cup {DlTarget(j)} ELSE fs
    /\ UNCHANGED << restVars, q, cfg, item, attempts, tracks, prevTracks, run, fsAtStart, cancel, mainPc,
                    nextIdx, convInit, pc, termReq, ev, made_files, m3u >>

Reverse(s) == [i \in 1..Len(s) |-> s[Len(s) + 1 - i]]

\* The rows of a second run: the same rows, or the same rows reordered.
Reorderings(s) == {s, Reverse(s)}

\* The user runs the pipeline again: a fresh Converter with the same options
\* and a fresh cancellation event, the same destination folder, the same rows
\* or the same rows in another order.  (The first run left no child behind.)
NewRun(rows) ==
    /\ mainPc = "returned"
    /\ run = 1
    /\ \A j \in Jobs : procSt[j] \in {"none", "exited"}
    /\ tracks' = rows
    /\ run' = 2
    /\ fsAtStart' = fs
    /\ cancel' = FALSE
    /\ mainPc' = "start"
    /\ nextIdx' = 1
    /\ item' = [j \in JobIds |-> NoItem]
    /\ attempts' = [j \in JobIds |-> 0]
    /\ convInit' = -1
    /\ pc' = [j \in JobIds |-> "new"]
    /\ procSt' = [j \in JobIds |-> "none"]
    /\ procCode' = [j \in JobIds |-> 0]
    /\ termReq' = [j \in JobIds |-> FALSE]
    /\ ev' = [j \in JobIds |-> << >>]
    /\ made_files' = << >>
    /\ m3u' = << >>
    /\ UNCHANGED << restVars, q, cfg, prevTracks, fs >>

Next ==
    \/ Begin
    \/ Submit
    \/ JoinAndReturn
    \/ \E j \in Jobs : StartJob(j)
    \/ \E j \in Jobs : SkipJob(j)
    \/ \E j \in Jobs : Spawn(j)
    \/ \E j \in Jobs : SpawnToolMissing(j)
    \/ \E j \in Jobs : SpawnRaises(j)
    \/ \E j \in Jobs : ReadLine(j)
    \/ \E j \in Jobs : EndOfStream(j)
    \/ \E j \in Jobs, aiffOk \in BOOLEAN : WaitAndReport(j, aiffOk)
    \/ SetCancel
    \/ \E j \in Jobs, code \in ExitCodes, wrote \in BOOLEAN :
          ProcExit(j, code, wrote)

\* One run of convert_from_csv under every configuration.
Spec == Init /\ [][Next]_vars

\* Two runs over the same folder, under every combination of numbering and
\* incremental update, the two-stage format and every tool state.
RerunConfigs ==
    { [BaseConfig EXCEPT !.prefix_numbers = p, !.incremental = i] :
        p \in BOOLEAN, i \in BOOLEAN }
    \cup { [BaseConfig EXCEPT !.needs_aiff = TRUE] }
    \cup { [BaseConfig EXCEPT !.tool = t] : t \in ToolStates }

InitRerun == Init /\ cfg \in RerunConfigs

NextRerun ==
    \/ Next
    \/ \E rows \in Reorderings(tracks) : NewRun(rows)

SpecRerun == InitRerun /\ [][NextRerun]_vars

\* The threads of the program take their steps: the main thread, and each
\* pool worker once it holds a job.  Nothing is assumed of the children:
\* whether a child prints a line, closes its output or exits is up to it.
WorkerStep(j) ==
    \/ StartJob(j)
    \/ SkipJob(j)
    \/ Spawn(j)
    \/ SpawnToolMissing(j)
    \/ SpawnRaises(j)
    \/ \E aiffOk \in BOOLEAN : WaitAndReport(j, aiffOk)

FairSpec ==
    /\ Spec
    /\ WF_vars(Begin \/ Submit \/ JoinAndReturn)
    /\ \A j \in JobIds : WF_vars(WorkerStep(j))

\* One run over a single row, with the lines of the child followed one by
\* one: the stream loop of _run_ytdlp_stream in full.
ProgressConfigs == { BaseConfig, [BaseConfig EXCEPT !.needs_aiff = TRUE] }

InitProgress == Init /\ Len(tracks) = 1 /\ cfg \in ProgressConfigs

NextProgress ==
    \/ Begin
    \/ Submit
    \/ JoinAndReturn
    \/ SetCancel
    \/ \E j \in JobIds :
          \/ StartJob(j)
          \/ Spawn(j)
          \/ \E line \in Lines : ReadAnyLine(j, line)
          \/ EndOfStream(j)
          \/ \E aiffOk \in BOOLEAN : WaitAndReport(j, aiffOk)
          \/ \E code \in ExitCodes, wrote \in BOOLEAN : ProcExit(j, code, wrote)

SpecProgress == InitProgress /\ [][NextProgress]_vars

\* ------------------------------------------- rows, jobs and sources

\* Number of CSV files the user can choose from.
MaxCsv == 2

\* Largest number of rows in the CSV file.
MaxRows == 2

\* Strings are sequences of tokens: a blank, a name, a separator.
\* str.strip(): leading and trailing blanks are removed.
RECURSIVE StripLeft(_)
StripLeft(s) ==
    IF s # << >> /\ Head(s) = " " THEN StripLeft(Tail(s)) ELSE s

RECURSIVE StripRight(_)
StripRight(s) ==
    IF s # << >> /\ s[Len(s)] = " "
        THEN StripRight(SubSeq(s, 1, Len(s) - 1))
        ELSE s

Strip(s) == StripRight(StripLeft(s))

\* Python's None, and the truth value of a string or None.
None == << "None" >>

Truthy(v) == v # None /\ v # << >>

\* The field values of the rows: empty, blank, padded; artist strings with
\* each separator.
TitleValues == { << >>, << " " >>, << " ", "T" >> }

ArtistValues ==
    { << >>, << "A" >>,
      << " ", "A", ",", " ", "B" >>,
      << "A", "/", "B" >>,
      << "A", " ", "&", " ", "B" >>,
      << "A", " ", "feat.", " ", "B" >>,
      << "A", " ", "ft.", " ", "B" >> }

UrlValues == { << >>, << " " >>, << "u", " " >> }

UriValues == { << >>, << "s" >> }

AllRows ==
    [ title : TitleValues, artists : ArtistValues, url : UrlValues, uri : UriValues ]

PlainRows ==
    { r \in AllRows : r.title # << " " >> /\ r.artists \in { << >>, << "A" >> } }

RECURSIVE SeqsUpTo(_, _)
SeqsUpTo(S, n) ==
    IF n = 0 THEN { << >> }
    ELSE LET shorter == SeqsUpTo(S, n - 1)
         IN  shorter \cup { Append(s, x) : s \in shorter, x \in S }

\* The CSV files: up to MaxRows plain rows, or one row of any kind.
RowLists == SeqsUpTo(PlainRows, MaxRows) \cup { << r >> : r \in AllRows }

\* Faulty variant of Discard: the track URI is not looked at.
DiscardIgnoringUri(r) ==
    /\ Strip(r.title) = << >>
    /\ Strip(r.artists) = << >>
    /\ Strip(r.url) = << >>

\* converter.py:283-289  the four fields are trimmed; the row is skipped
\* when none of them is left
Discard(r) ==
    /\ Strip(r.title) = << >>
    /\ Strip(r.artists) = << >>
    /\ Strip(r.url) = << >>
    /\ Strip(r.uri) = << >>

\* converter.py:290-296  the job of a row (the album plays no part here)
JobOf(r) ==
    [ title      |-> Strip(r.title),
      artists    |-> Strip(r.artists),
      source_url |-> IF Strip(r.url) # << >> THEN Strip(r.url) ELSE None,
      track_uri  |-> IF Strip(r.uri) # << >> THEN Strip(r.uri) ELSE None ]

\* converter.py:280-297  _rows_to_jobs
RECURSIVE RowsToJobs(_)
RowsToJobs(rs) ==
    IF rs = << >> THEN << >>
    ELSE IF Discard(Head(rs)) THEN RowsToJobs(Tail(rs))
    ELSE << JobOf(Head(rs)) >> \o RowsToJobs(Tail(rs))

\* str.split(sep)[0]: the tokens before the first separator
RECURSIVE BeforeFirst(_, _)
BeforeFirst(s, seps) ==
    IF s = << >> \/ Head(s) \in seps THEN << >>
    ELSE << Head(s) >> \o BeforeFirst(Tail(s), seps)

\* converter.py:307  (t.get("artists") or "").split(",")[0].strip()
PrimaryArtist(a) ==
    Strip(BeforeFirst(IF Truthy(a) THEN a ELSE << >>, {","}))

\* Faulty variant of BuildSearchQuery: no query without a title or artist.
BuildSearchQueryOrNone(t) ==
    LET query == Strip(PrimaryArtist(t.artists) \o << " " >> \o t.title)
    IN  IF query = << >> THEN None
        ELSE << "ytsearch1:" >> \o query

\* converter.py:306-314  _build_search_query
BuildSearchQuery(t) ==
    LET artist == PrimaryArtist(t.artists)
        title  == IF Truthy(t.title) THEN t.title ELSE << >>
        query  == Strip(artist \o << " " >> \o title)
    IN  << "ytsearch1:" >>
        \o (IF cfg.deep_search THEN query \o << " ", "audio" >> ELSE query)

\* Faulty variant of SourceArg: a search is made for every job.
SourceArgAlwaysSearch(t) == BuildSearchQuery(t)

\* converter.py:216-219  the last argument of the yt-dlp command
SourceArg(t) ==
    LET url == IF Truthy(t.source_url) THEN t.source_url ELSE t.track_uri
    IN  IF Truthy(url) THEN url ELSE BuildSearchQuery(t)

\* The source argument of a job that was not resolved yet.
Unset == << "unset" >>

\* The variables of a run of the Converter's pool.
runVars == << tracks, prevTracks, run, fsAtStart, fs, cancel, mainPc, nextIdx, item,
              attempts, convInit, pc, procSt, procCode, termReq, ev, made_files, m3u >>

\* converter.py:140-141  tracks = self._rows_to_jobs(rows)
Normalize ==
    /\ rowPc = "rows"
    /\ jobs' = RowsToJobs(csvRows)
    /\ srcArg' = [i \in 1..Len(jobs') |-> Unset]
    /\ rowPc' = "jobs"
    /\ UNCHANGED << svcVars, cfg, runVars, q, lastPct, lockVars, guiVars, csvRows >>

\* converter.py:216-219  the worker of job i builds its source argument
ResolveSource(i) ==
    /\ rowPc = "jobs"
    /\ i \in 1..Len(jobs)
    /\ srcArg[i] = Unset
    /\ srcArg' = [srcArg EXCEPT ![i] = SourceArg(jobs[i])]
    /\ UNCHANGED << svcVars, cfg, runVars, q, lastPct, lockVars, guiVars, csvRows, jobs, rowPc >>

\* From a CSV file to the source arguments, with deep search on and off.
RowConfigs == { [BaseConfig EXCEPT !.deep_search = d] : d \in BOOLEAN }

InitRows ==
    /\ cfg \in RowConfigs
    /\ tracks = << >>
    /\ ConverterIdle
    /\ WorkersIdle
    /\ GuiIdle
    /\ ServicesIdle
    /\ csvRows \in RowLists
    /\ jobs = << >>
    /\ srcArg = << >>
    /\ rowPc = "rows"

NextRows ==
    \/ Normalize
    \/ \E i \in 1..MaxRows : ResolveSource(i)

SpecRows == InitRows /\ [][NextRows]_vars

\* ------------------------------------------------ Spotify access tokens

\* Number of distinct token values the authorisation server hands out.
MaxTokens == 2

\* The clock is followed up to this many seconds.
MaxClock == 62

\* spotify_auth.py:23  now < self._expires_at - 30
ExpiryMargin == 30

\* spotify_auth.py:105  tok.get("expires_in", 3600)
DefaultExpiresIn == 3600

Tokens == 1..MaxTokens

\* Values of "expires_in" in a token response; 0 stands for a response
\* without the key.
ExpiresInValues == {0, 40, 60}

\* How far the clock moves between two calls.
TickSteps == {10, 30, 31}

\* The variables of the converter and of its GUI run.
appVars == << cfg, runVars, q, lastPct, lockVars, guiVars, rowVars >>

\* Faulty variant of TokenFresh: a held token is used up to its expiry.
TokenFreshUntilExpiry == accessTok # 0 /\ now < expiresAt

\* spotify_auth.py:23  self._access_token and now < self._expires_at - 30
TokenFresh == accessTok # 0 /\ now < expiresAt - ExpiryMargin

\* Faulty variant of RefreshTokenAfter: the field of the response is taken
\* as it is.
RefreshTokenOfResponse(rt) == rt

\* spotify_auth.py:97-98, 104  the refresh token after a token response
\* whose "refresh_token" is rt (0: the response has no such key): the
\* response's, or else the one held
RefreshTokenAfter(rt) == IF rt = 0 THEN refreshTok ELSE rt

\* token_store.py:13-15  RefreshTokenStore.set: a no-op without keyring
StoreSet(tok) == IF store.keyring THEN [store EXCEPT !.tok = tok] ELSE store

\* spotify_auth.py:102-107  _set_tokens(tok), the time being `now`
SetTokens(at, rt, ei) ==
    /\ accessTok' = at
    /\ refreshTok' = RefreshTokenAfter(rt)
    /\ expiresAt' = now + (IF ei = 0 THEN DefaultExpiresIn ELSE ei)
    /\ store' = IF store.given /\ RefreshTokenAfter(rt) # 0
                   THEN StoreSet(RefreshTokenAfter(rt)) ELSE store

\* spotify_auth.py:22-24  get_token returns the held access token
GetTokenCached ==
    /\ TokenFresh
    /\ lastCall' = [ seq |-> 1 - lastCall.seq, path |-> "cached", ok |-> TRUE,
                     net |-> 0, rt |-> 0 ]
    /\ UNCHANGED << accessTok, refreshTok, expiresAt, now, store, appVars, apiVars, logVars >>

\* spotify_auth.py:25-27, 89-100  get_token refreshes: one POST to the token
\* endpoint, answered with a token response
GetTokenRefresh(at, rt, ei) ==
    /\ ~TokenFresh
    /\ refreshTok # 0
    /\ SetTokens(at, rt, ei)
    /\ lastCall' = [ seq |-> 1 - lastCall.seq, path |-> "refresh", ok |-> TRUE,
                     net |-> 1, rt |-> rt ]
    /\ UNCHANGED << now, appVars, apiVars, logVars >>

\* spotify_auth.py:95-96  r.raise_for_status() raises: get_token raises
GetTokenRefreshFails ==
    /\ ~TokenFresh
    /\ refreshTok # 0
    /\ lastCall' = [ seq |-> 1 - lastCall.seq, path |-> "refresh", ok |-> FALSE,
                     net |-> 1, rt |-> 0 ]
    /\ UNCHANGED << accessTok, refreshTok, expiresAt, now, store, appVars, apiVars, logVars >>

\* spotify_auth.py:28-29, 38-87  get_token runs the interactive
\* authorisation: one POST to the token endpoint with the code
GetTokenAuthorize(at, rt, ei) ==
    /\ ~TokenFresh
    /\ refreshTok = 0
    /\ SetTokens(at, rt, ei)
    /\ lastCall' = [ seq |-> 1 - lastCall.seq, path |-> "authorize", ok |-> TRUE,
                     net |-> 1, rt |-> rt ]
    /\ UNCHANGED << now, appVars, apiVars, logVars >>

\* spotify_auth.py:84-85  r.raise_for_status() raises: get_token raises
GetTokenAuthorizeFails ==
    /\ ~TokenFresh
    /\ refreshTok = 0
    /\ lastCall' = [ seq |-> 1 - lastCall.seq, path |-> "authorize", ok |-> FALSE,
                     net |-> 1, rt |-> 0 ]
    /\ UNCHANGED << accessTok, refreshTok, expiresAt, now, store, appVars, apiVars, logVars >>

\* Time passes between two calls.
Tick(d) ==
    /\ now + d <= MaxClock
    /\ now' = now + d
    /\ UNCHANGED << accessTok, refreshTok, expiresAt, store, lastCall, appVars, apiVars, logVars >>

\* spotify_auth.py:11-19, token_store.py:10-12  a PKCEAuth made without a
\* store, with a store and no keyring, or with a store that holds no token
\* or a token
AuthStores ==
    { [ given |-> FALSE, keyring |-> FALSE, tok |-> 0 ],
      [ given |-> TRUE, keyring |-> FALSE, tok |-> 0 ] }
    \cup { [ given |-> TRUE, keyring |-> TRUE, tok |-> t ] : t \in {0} \cup Tokens }

InitAuth ==
    /\ cfg = BaseConfig
    /\ tracks = << >>
    /\ ConverterIdle
    /\ WorkersIdle
    /\ GuiIdle
    /\ RowsIdle
    /\ store \in AuthStores
    /\ accessTok = 0
    /\ refreshTok = store.tok
    /\ expiresAt = 0
    /\ now = 0
    /\ lastCall = NoCall
    /\ ApiIdle
    /\ LogIdle

NextAuth ==
    \/ GetTokenCached
    \/ GetTokenRefreshFails
    \/ GetTokenAuthorizeFails
    \/ \E d \in TickSteps : Tick(d)
    \/ \E at \in Tokens, rt \in {0} \cup Tokens, ei \in ExpiresInValues :
          \/ GetTokenRefresh(at, rt, ei)
          \/ GetTokenAuthorize(at, rt, ei)

SpecAuth == InitAuth /\ [][NextAuth]_vars

\* ------------------------------------------------ Spotify API requests

\* spotify_api.py:16  Retry(total=5): resends of one session call
RetryTotal == 5

\* spotify_api.py:18  status_forcelist: the answers the session resends on
StatusForcelist == {429, 500, 502, 503, 504}

\* spotify_api.py:85, 97  the answer that triggers the refresh and retry
Unauthorized == 401

\* Status codes of the answers of the API: success, unauthorized, another
\* client error, a server error of the force list.
Statuses == {200, Unauthorized, 404, 503}

\* The variables outside one call of the Spotify client.
nonApiVars == << appVars, authVars, logVars >>

\* spotify_api.py:81, 84, 96  the call starts: _headers() asks the token
\* supplier, which returns a token or raises
ApiCall(m, supplierOk) ==
    /\ apiPc = "idle"
    /\ method' = m
    /\ IF supplierOk
          THEN apiPc' = "request" /\ sess' = 1 /\ retriesLeft' = RetryTotal
          ELSE apiPc' = "raised" /\ UNCHANGED << sess, retriesLeft >>
    /\ UNCHANGED << wire, status, supplierRaised, nonApiVars >>

\* spotify_api.py:15-32  one HTTP request of the session call and its
\* answer: an answer of the force list is sent again while resends are left
\* (both methods are in allowed_methods), any other answer, or the last one
\* (raise_on_status=False), is handed to the caller
Transport(st) ==
    /\ apiPc \in {"request", "retry"}
    /\ wire' = wire + 1
    /\ IF st \in StatusForcelist /\ retriesLeft > 0
          THEN /\ retriesLeft' = retriesLeft - 1
               /\ UNCHANGED << apiPc, status >>
          ELSE /\ status' = st
               /\ apiPc' = IF apiPc = "request" THEN "answered" ELSE "final"
               /\ UNCHANGED retriesLeft
    /\ UNCHANGED << method, sess, supplierRaised, nonApiVars >>

\* spotify_api.py:85, 97  r.status_code == 401 and _retry401 (no caller
\* passes _retry401)
TestUnauthorized ==
    /\ apiPc = "answered"
    /\ apiPc' = IF status = Unauthorized THEN "refresh" ELSE "final"
    /\ UNCHANGED << method, wire, sess, retriesLeft, status, supplierRaised, nonApiVars >>

\* spotify_api.py:87-90, 99-102  the explicit refresh: the token supplier is
\* called and an exception it raises is logged and dropped
ExplicitRefresh(supplierOk) ==
    /\ apiPc = "refresh"
    /\ supplierRaised' = ~supplierOk
    /\ apiPc' = "headers"
    /\ UNCHANGED << method, wire, sess, retriesLeft, status, nonApiVars >>

\* spotify_api.py:91, 103  the second session call: its headers come from
\* _headers(), which calls the token supplier again outside any try block
RetryHeaders(supplierOk) ==
    /\ apiPc = "headers"
    /\ IF supplierOk
          THEN apiPc' = "retry" /\ sess' = sess + 1 /\ retriesLeft' = RetryTotal
          ELSE apiPc' = "raised" /\ UNCHANGED << sess, retriesLeft >>
    /\ UNCHANGED << method, wire, status, supplierRaised, nonApiVars >>

\* spotify_api.py:92-93, 104-105  r.raise_for_status(); return r.json()
Finish ==
    /\ apiPc = "final"
    /\ apiPc' = IF status >= 400 THEN "raised" ELSE "returned"
    /\ UNCHANGED << method, wire, sess, retriesLeft, status, supplierRaised, nonApiVars >>

InitApi ==
    /\ cfg = BaseConfig
    /\ tracks = << >>
    /\ ConverterIdle
    /\ WorkersIdle
    /\ GuiIdle
    /\ RowsIdle
    /\ ServicesIdle

NextApi ==
    \/ \E m \in {"GET", "POST"}, supplierOk \in BOOLEAN : ApiCall(m, supplierOk)
    \/ \E st \in Statuses : Transport(st)
    \/ TestUnauthorized
    \/ \E supplierOk \in BOOLEAN : ExplicitRefresh(supplierOk)
    \/ \E supplierOk \in BOOLEAN : RetryHeaders(supplierOk)
    \/ Finish

SpecApi == InitApi /\ [][NextApi]_vars

\* ------------------------------------------------------ the live log

\* log_viewer.py:148  Queue(maxsize=1000)
LogQueueMax == 1000

\* The variables outside the live log.
nonLogVars == << appVars, authVars, apiVars >>

\* Faulty variant of QueueFull: the queue has no size limit.
QueueNeverFull == FALSE

\* log_viewer.py:19, 148  put_nowait raises queue.Full iff the queue holds
\* maxsize records
QueueFull == logLen >= LogQueueMax

\* log_viewer.py:17-22  emit(record): put_nowait, and a record that does
\* not fit is dropped in the except branch
LogEmit ==
    /\ IF QueueFull
          THEN lastEmit' = [ seq |-> 1 - lastEmit.seq, res |-> "dropped" ]
               /\ UNCHANGED logLen
          ELSE lastEmit' = [ seq |-> 1 - lastEmit.seq, res |-> "queued" ]
               /\ logLen' = logLen + 1
    /\ UNCHANGED << paused, logPollPc, nonLogVars >>

\* log_viewer.py:53  the Pause check box is toggled
TogglePause ==
    /\ paused' = ~paused
    /\ UNCHANGED << logLen, logPollPc, lastEmit, nonLogVars >>

\* log_viewer.py:115-117, 125  _poll runs: it enters the drain loop unless
\* the window is paused, and is scheduled again either way
LogPollStart ==
    /\ logPollPc = "waiting"
    /\ logPollPc' = IF paused THEN "waiting" ELSE "draining"
    /\ UNCHANGED << logLen, paused, lastEmit, nonLogVars >>

\* log_viewer.py:118-122  get_nowait() returns a record
LogPollTake ==
    /\ logPollPc = "draining"
    /\ logLen > 0
    /\ logLen' = logLen - 1
    /\ UNCHANGED << paused, logPollPc, lastEmit, nonLogVars >>

\* log_viewer.py:123-125  get_nowait() raises Empty; _poll is scheduled
LogPollEmpty ==
    /\ logPollPc = "draining"
    /\ logLen = 0
    /\ logPollPc' = "waiting"
    /\ UNCHANGED << logLen, paused, lastEmit, nonLogVars >>

InitLog == InitApi

NextLog ==
    \/ LogEmit
    \/ TogglePause
    \/ LogPollStart
    \/ LogPollTake
    \/ LogPollEmpty

SpecLog == InitLog /\ [][NextLog]_vars

\* -------------------------------------------------- the GUI hand-off

\* gui.py:470-476  start_conversion: the controls are disabled, a new queue
\* is made, the worker thread is started and the poller scheduled
StartConversion ==
    /\ thPc = "idle"
    /\ mainPc = "start"
    /\ convertBtn
    /\ controls' = FALSE
    /\ convertBtn' = FALSE
    /\ UNCHANGED csvPath
    /\ q' = << >>
    /\ taken' = 0
    /\ convDone' = FALSE
    /\ thPc' = "running"
    /\ pollPc' = "scheduled"
    /\ UNCHANGED << svcVars, cfg, runVars, lastPct, lockVars, rowVars >>

\* converter.py:132-140  convert_from_csv raises before the pool is made
\* (the folder cannot be created, the CSV file cannot be read)
ConvertRaises ==
    /\ thPc = "running"
    /\ mainPc = "start"
    /\ mainPc' = "raised"
    /\ UNCHANGED << cfg, tracks, prevTracks, run, fsAtStart, fs, cancel, nextIdx, item,
                    attempts, convInit, pc, procSt, procCode, termReq, ev, made_files,
                    m3u, q, restVars >>

\* gui.py:487-490  the worker thread puts ('done', out_dir), or
\* ('error', str(e)) from its except branch
PutTerminal ==
    /\ thPc = "running"
    /\ mainPc \in {"returned", "raised"}
    /\ q' = Append(q, IF mainPc = "returned" THEN "done" ELSE "error")
    /\ thPc' = "put"
    /\ UNCHANGED << svcVars, cfg, runVars, lastPct, lockVars, rowVars, pollPc, convDone,
                    controls, taken, pickVars >>

\* gui.py:478-490  _run_conversion_worker returns: the thread is over
ThreadExit ==
    /\ thPc = "put"
    /\ thPc' = "dead"
    /\ UNCHANGED << svcVars, cfg, runVars, lastPct, lockVars, rowVars, q, pollPc, convDone,
                    controls, taken, pickVars >>

\* gui.py:494-519  the poller runs and get_nowait() returns a message: a
\* terminal message enables the controls and sets _conv_done; the loop goes
\* on
PollTake ==
    /\ pollPc = "scheduled"
    /\ taken < Len(q)
    /\ taken' = taken + 1
    /\ IF q[taken + 1] \in {"done", "error"}
          THEN controls' = TRUE /\ convertBtn' = TRUE /\ convDone' = TRUE
          ELSE UNCHANGED << controls, convertBtn, convDone >>
    /\ UNCHANGED << svcVars, cfg, runVars, lastPct, lockVars, rowVars, q, thPc, pollPc, csvPath >>

\* gui.py:520-521  get_nowait() raises queue.Empty: the loop is left
PollEmpty ==
    /\ pollPc = "scheduled"
    /\ taken = Len(q)
    /\ pollPc' = "drained"
    /\ UNCHANGED << svcVars, cfg, runVars, lastPct, lockVars, rowVars, q, thPc, convDone,
                    controls, taken, pickVars >>

\* gui.py:522-523  the poller is scheduled again only if the thread is
\* alive and no terminal message was handled
PollTest ==
    /\ pollPc = "drained"
    /\ pollPc' = IF thPc \in {"running", "put"} /\ ~convDone
                     THEN "scheduled" ELSE "stopped"
    /\ UNCHANGED << svcVars, cfg, runVars, lastPct, lockVars, rowVars, q, thPc, convDone,
                    controls, taken, pickVars >>

\* gui.py:175, 387-395  browse_csv is bound to <Button-1> of drop_label, a
\* tk.Label: _set_controls only sets the state option of the label
\* (gui.py:626-633), which changes how it is drawn and leaves the binding
\* in place.  A file chosen in the dialog becomes csv_path, and
\* update_convert_button_state (gui.py:427-430) sets the Convert button to
\* NORMAL, an output folder being selected.
BrowseCsv(path) ==
    /\ csvPath' = path
    /\ convertBtn' = TRUE
    /\ UNCHANGED << svcVars, cfg, runVars, lastPct, lockVars, rowVars, q, thPc, pollPc,
                    convDone, controls, taken >>

\* One conversion of one row started from the GUI.  The Converter of the GUI
\* run gets no cancel_event (gui.py:480-485), so its flag is never set.
InitGui == Init /\ cfg = BaseConfig /\ Len(tracks) = 1

NextGui ==
    \/ StartConversion
    \/ thPc = "running" /\ Begin
    \/ ConvertRaises
    \/ Submit
    \/ JoinAndReturn
    \/ PutTerminal
    \/ ThreadExit
    \/ PollTake
    \/ PollEmpty
    \/ PollTest
    \/ \E j \in JobIds :
          \/ StartJob(j)
          \/ Spawn(j)
          \/ EndOfStream(j)
          \/ \E aiffOk \in BOOLEAN : WaitAndReport(j, aiffOk)
          \/ \E code \in ExitCodes, wrote \in BOOLEAN : ProcExit(j, code, wrote)

SpecGui == InitGui /\ [][NextGui]_vars

\* The CSV files the user can pick in the file dialog.
CsvFiles == 1..MaxCsv

\* The same conversion with the user clicking on the CSV label.
NextControls ==
    \/ NextGui
    \/ \E path \in CsvFiles : BrowseCsv(path)

SpecControls == InitGui /\ [][NextControls]_vars

\* The Tk main loop runs every scheduled call of the poller, and the worker
\* thread takes its last steps.  Nothing else is assumed.
FairSpecGui ==
    /\ SpecGui
    /\ WF_vars(PollTake \/ PollEmpty \/ PollTest)
    /\ WF_vars(PutTerminal \/ ThreadExit)

\* One run with the append to _made_files followed step by step.
LockConfigs == { BaseConfig, [BaseConfig EXCEPT !.generate_m3u = FALSE] }

InitLock == Init /\ cfg \in LockConfigs

NextLock ==
    \/ Begin
    \/ Submit
    \/ JoinAndReturn
    \/ SetCancel
    \/ \E j \in JobIds :
          \/ StartJob(j)
          \/ SkipReport(j)
          \/ Spawn(j)
          \/ ReadLine(j)
          \/ EndOfStream(j)
          \/ \E aiffOk \in BOOLEAN : ReportOutcome(j, aiffOk)
          \/ AcquireLock(j)
          \/ ReadList(j)
          \/ WriteAndRelease(j)
          \/ \E code \in ExitCodes, wrote \in BOOLEAN : ProcExit(j, code, wrote)

SpecLock == InitLock /\ [][NextLock]_vars

\* ------------------------------------------------------------- properties

Has(j, e) == \E i \in 1..Len(ev[j]) : ev[j][i] = e

ErrorEvents == {"error", "error_tool", "error_aiff"}

TerminalEvents == {"done", "cancel_all"} \cup ErrorEvents

NTerminal(j) == Cardinality({ i \in 1..Len(ev[j]) : ev[j][i] \in TerminalEvents })

FinalFiles(folder) == { f \in folder : f.kind = "final" }

Returned == mainPc = "returned"

\* C1: the worker count is the configured value clamped into 1..8, and never
\* more than that many jobs are inside _process_one at once.
C1_BoundedWorkers ==
    /\ W \in 1..8
    /\ cfg.concurrency \in 1..8 => W = cfg.concurrency
    /\ Cardinality(Executing) <= W

\* C1 witness: a concurrency of 0 was clamped to one worker, that worker is
\* busy and another job waits in the pool's queue.
C1_Witness ==
    /\ cfg.concurrency = 0
    /\ Cardinality(Executing) = W
    /\ \E j \in Jobs : pc[j] = "queued"

\* C2 (as claimed): when convert_from_csv has returned, every job that
\* emitted "init" has emitted exactly one terminal event.
C2_InitHasOneTerminal ==
    Returned => \A j \in Jobs : Has(j, "init") => NTerminal(j) = 1

\* C3 (as claimed): when a cancelled run returns (every child it started
\* having exited in time), the dedupe state, which for this code is the set
\* of final files in the destination folder, has gained nothing from a job
\* that did not report success.
C3_OnlySucceededJobsContribute ==
    [][ (/\ mainPc = "join" /\ mainPc' = "returned" /\ cancel
         /\ \A j \in Jobs : procSt[j] \in {"none", "exited"}) =>
            FinalFiles(fs) \ FinalFiles(fsAtStart)
                \subseteq { DestName(j) : j \in { k \in Jobs : Has(k, "done") } } ]_vars

\* C4 (as claimed): when convert_from_csv has returned, no child that a
\* worker asked to terminate is still alive.
C4_TerminatedChildIsGone ==
    Returned => \A j \in Jobs : termReq[j] => ~Live(j)

\* C5 (as claimed): once the flag is set, a worker streaming a live child
\* eventually calls terminate (or the child is gone), whether or not the
\* child prints another line.
C5_CancelLeadsToTerminate ==
    \A j \in JobIds :
        (cancel /\ pc[j] = "stream" /\ procSt[j] = "alive")
            ~> (termReq[j] \/ procSt[j] # "alive")

\* C6: a job whose child the worker terminated because of the flag emits
\* neither "done" nor an error event, and once finished it has reported
\* "cancel_all", whatever exit code the child returned.
C6_InterruptedIsCancelled ==
    \A j \in Jobs :
        termReq[j] =>
            /\ ~Has(j, "done")
            /\ \A e \in ErrorEvents : ~Has(j, e)
            /\ pc[j] = "fin" => ev[j] = << "init", "cancel_all" >>

\* C6 witness: a terminated child has exited and its job has reported.
C6_Witness ==
    \E j \in Jobs :
        /\ termReq[j]
        /\ procSt[j] = "exited"
        /\ pc[j] = "fin"
        /\ Has(j, "cancel_all")

\* A job that never spawned a child because of cancellation: never
\* submitted (the submit loop broke), or returned at the entry test.
NotStartedByCancel(j) ==
    \/ pc[j] = "new"
    \/ pc[j] = "fin" /\ ev[j] = << >>

\* C7 (as claimed): when convert_from_csv has returned, every job that never
\* spawned a child because of cancellation has reported cancelled.
C7_UnstartedReportCancelled ==
    Returned => \A j \in Jobs : NotStartedByCancel(j) => Has(j, "cancel_all")

\* C8 (as claimed): in a second run over the same rows, no child is started
\* for a row whose output the first run left in the folder.
C8_SecondRunDownloadsNothing ==
    (run = 2 /\ tracks = prevTracks) =>
        \A j \in Jobs : DestName(j) \in fsAtStart => procSt[j] = "none"

\* C8 (amended): the same, when incremental update is enabled.
C8_SecondRunSkipsWhenIncremental ==
    (run = 2 /\ tracks = prevTracks /\ cfg.incremental) =>
        \A j \in Jobs : DestName(j) \in fsAtStart => procSt[j] = "none"

\* C8 witness: the second run finished a job as "done" without a child,
\* its output being there from the first run.
C8_Witness ==
    /\ run = 2
    /\ tracks = prevTracks
    /\ cfg.incremental
    /\ \E j \in Jobs :
        /\ DestName(j) \in fsAtStart
        /\ pc[j] = "fin"
        /\ ev[j] = << "init", "done" >>
        /\ procSt[j] = "none"

\* The track of job j has an output file in the folder under some name.
TrackPresent(j, folder) ==
    \E f \in FinalFiles(folder) : f.base = tracks[j]

NoDuplicates(s) == \A i, k \in 1..Len(s) : s[i] = s[k] => i = k

\* C9 (as claimed): with incremental update, no child is started for a job
\* whose track already has an output in the folder, whatever its position
\* (stated for job lists that name each track once).
C9_SkipKeyedByTrack ==
    (run = 2 /\ cfg.incremental /\ NoDuplicates(tracks)) =>
        \A j \in Jobs : TrackPresent(j, fsAtStart) => procSt[j] = "none"

\* C10 (as claimed): conv_init reports as "new" the number of jobs whose
\* output is not already in the folder.
C10_ConvInitCountsNewJobs ==
    (cfg.incremental /\ convInit # -1) =>
        convInit = Cardinality({ j \in Jobs : DestName(j) \notin fsAtStart })

IdxOf(f) == CHOOSE j \in Jobs : tracks[j] = f.base

\* C14: over rows with pairwise distinct titles, the playlist written by a
\* run that was not cancelled lists the files in ascending order of their
\* rows' sequence indices, whatever the order in which the workers finished.
C14_PlaylistInIndexOrder ==
    (Returned /\ ~cancel /\ NoDuplicates(tracks)) =>
        \A a, b \in 1..Len(m3u) : a < b => IdxOf(m3u[a]) < IdxOf(m3u[b])

\* C15: with playlist generation on, once convert_from_csv has returned
\* (cancelled or not) the playlist it wrote holds final file names only and,
\* for every file name, as many entries as there are jobs of that name that
\* reported 'done': one entry per successful job, none for a job that
\* reported an error, was cancelled, or reported nothing.
C15_PlaylistListsDoneJobs ==
    (Returned /\ cfg.generate_m3u) =>
        /\ \A i \in 1..Len(m3u) :
              m3u[i].kind = "final" /\ \E j \in Jobs : m3u[i] = DestName(j)
        /\ \A k \in Jobs :
              Count(m3u, DestName(k)) =
                  Cardinality({ j \in Jobs : Has(j, "done") /\ DestName(j) = DestName(k) })

C15_Witness ==
    /\ Returned /\ cfg.generate_m3u
    /\ Len(tracks) = MaxJobs
    /\ \E j, k \in Jobs :
          /\ Has(j, "done") /\ attempts[j] = 1
          /\ \E e \in ErrorEvents \cup {"cancel_all"} : Has(k, e)
    /\ Len(m3u) = MaxJobs - 1

\* C16: with the two-stage AIFF path, once a job that started yt-dlp has
\* completed and its child has exited, the intermediate file of the job is
\* not in the destination folder, whatever the job reported (rows with
\* pairwise distinct titles, so that no other job uses the same file).
C16_NoIntermediateLeftBehind ==
    \A j \in Jobs :
        ( /\ cfg.needs_aiff /\ NoDuplicates(tracks)
          /\ pc[j] = "fin" /\ attempts[j] = 1 /\ procSt[j] = "exited"
          /\ NTerminal(j) = 1 )
            => DlTarget(j) \notin fs

\* C17: when a worker that is not cancelled gets exit code 0 from yt-dlp on
\* the AIFF path, it reports either 'done', and then the final file is in
\* the folder, or the AIFF-conversion error, whose message differs from the
\* retrieval-failure and tool-not-found messages; it reports that error
\* whenever the intermediate file is missing, and a job that reports it
\* reports nothing else, adds nothing to _made_files and leaves the folder
\* as it was.
C17_TranscodeFailureIsDistinctError ==
    [][\A j \in JobIds :
          ( /\ pc[j] = "wait" /\ pc'[j] = "fin"
            /\ cfg.needs_aiff /\ ~cancel /\ WaitCode(j) = 0 )
          => /\ ev'[j] \in { << "init", "done" >>, << "init", "error_aiff" >> }
             /\ ev'[j] = << "init", "done" >> => DestFinal(j) \in fs'
             /\ DlTarget(j) \notin fs => ev'[j] = << "init", "error_aiff" >>
             /\ ev'[j] = << "init", "error_aiff" >> =>
                   made_files' = made_files /\ fs' = fs]_vars

C17_Witness ==
    \E j \in Jobs :
        /\ cfg.needs_aiff /\ ~cancel
        /\ pc[j] = "fin" /\ procSt[j] = "exited"
        /\ ev[j] = << "init", "error_aiff" >>
        /\ DlTarget(j) \in fs
        /\ made_files = << >>

\* The worker of job j gave up waiting for its child (proc.wait timed out).
WaitTimedOut(j) == procSt[j] \in {"abandoned", "abandoned_exited"}

\* C18 (as stated): a job whose child had not exited when the bounded wait
\* ended has reported an 'error' event.
C18_TimeoutReportsError ==
    \A j \in Jobs : WaitTimedOut(j) => Has(j, "error")

\* C18 (amended): the wait after the end of the stream never blocks the
\* worker, whatever the state of the child; a job whose child had not exited
\* when the wait ended is completed and has reported, after 'init', the
\* retrieval 'error' and nothing else, or, only when the cancellation flag
\* is set, 'cancel_all' and nothing else; it is never reported done.
C18_TimeoutIsFailureOrCancelled ==
    \A j \in Jobs :
        /\ pc[j] = "wait" => ENABLED WaitAndReport(j, FALSE)
        /\ WaitTimedOut(j) =>
              /\ pc[j] = "fin"
              /\ ev[j] \in { << "init", "error" >>, << "init", "cancel_all" >> }
              /\ ev[j] = << "init", "cancel_all" >> => cancel

C18_Witness ==
    /\ Returned /\ ~cancel /\ W = 1
    /\ Len(tracks) = MaxJobs
    /\ procSt[1] = "abandoned" /\ ev[1] = << "init", "error" >>
    /\ \A j \in Jobs \ {1} : Has(j, "done") /\ attempts[j] = 1

\* C19: at any time the number of yt-dlp children of the run that are still
\* alive is at most the worker count W.
C19_LiveChildrenBoundedByWorkers ==
    Cardinality({ j \in Jobs : Live(j) }) <= W

\* The positions whose work item has been built by the submit loop.
Submitted == 1..(nextIdx - 1)

\* C20: the work item built for the i-th row carries index i and the
\* destination computed from i, and is not changed afterwards; the indices
\* handed out so far are exactly 1..k with no gap or repetition, and 1..N
\* once the submit loop of a run that is not cancelled has ended; with
\* numbering on, the number in a job's file name is its index; the events
\* filed under an index come from the job that was given that index, in
\* whatever order the workers start and complete.
C20_IndexAssignedOnceAndPreserved ==
    /\ \A j \in Submitted :
          /\ item[j].idx = j
          /\ item[j].dest = DestName(j)
          /\ cfg.prefix_numbers => item[j].dest.num = item[j].idx
    /\ \A j \in JobIds \ Submitted : item[j] = NoItem /\ ev[j] = << >>
    /\ { item[j].idx : j \in Submitted } = Submitted
    /\ \A j, k \in Submitted : item[j].idx = item[k].idx => j = k
    /\ (mainPc \in {"join", "returned"} /\ ~cancel) => Submitted = Jobs
    /\ \A j \in Submitted :
          /\ pc[j] \in {"new", "queued"} => ev[j] = << >>
          /\ pc[j] \in {"run", "stream", "wait"} => ev[j] = << "init" >>
          /\ Len(ev[j]) <= 2

C20_Witness ==
    /\ Returned /\ ~cancel /\ cfg.prefix_numbers
    /\ Len(tracks) = MaxJobs /\ Submitted = Jobs
    /\ \A j \in Jobs : ev[j] = << "init", "done" >> /\ attempts[j] = 1
    /\ made_files[1] = DestName(MaxJobs)
    /\ made_files[1].num = MaxJobs

\* Position of a job in its life cycle: not submitted, pending in the pool,
\* inside _process_one (before Popen, reading the stream, waiting), over.
Stage(p) ==
    CASE p = "new"    -> 0
      [] p = "queued" -> 1
      [] p = "run"    -> 2
      [] p = "stream" -> 3
      [] p = "wait"   -> 4
      [] p = "fin"    -> 5

\* C21: within a run every index is taken by one worker only: a job never
\* goes back to an earlier stage (so _process_one is entered at most once
\* for it), at most one 'init' event is filed under it, and at most one
\* yt-dlp child is started for it.
C21_JobConsumedOnce ==
    [][\A j \in JobIds :
          /\ pc'[j] # pc[j] => Stage(pc'[j]) > Stage(pc[j])
          /\ Count(ev'[j], "init") <= 1
          /\ attempts'[j] <= 1
          /\ procSt'[j] # "none" => attempts'[j] = 1]_vars

C21_Witness ==
    /\ Returned /\ W > 1
    /\ Len(tracks) = MaxJobs
    /\ \A j \in Jobs :
          pc[j] = "fin" /\ Count(ev[j], "init") = 1 /\ attempts[j] = 1

\* C22: the events filed under an index are, in this order: 'init', then
\* any number of 'progress' events, then at most one terminal event
\* ('done', an error, or the cancellation report); nothing precedes 'init'
\* and nothing follows the terminal event.
C22_EventsSequentialPerJob ==
    \A j \in JobIds :
        \A i \in 1..Len(ev[j]) :
            /\ (i = 1) <=> (ev[j][i] = "init")
            /\ ev[j][i] \in TerminalEvents => i = Len(ev[j])
            /\ (1 < i /\ i < Len(ev[j])) => ev[j][i] = "progress"

C22_Witness ==
    \E j \in Jobs :
        /\ Len(ev[j]) = MaxProgress + 2
        /\ ev[j][1] = "init"
        /\ \A i \in 2..(MaxProgress + 1) : ev[j][i] = "progress"
        /\ ev[j][Len(ev[j])] = "done"

\* C24 (percentage): every progress event carries a percentage between 0
\* and 100 (lastPct is the percentage of the latest one, in tenths).
C24_PercentInRange ==
    \A j \in JobIds : lastPct[j] # -1 => lastPct[j] \in 0..(100 * 10)

\* The workers inside the guarded append.
InCritical == { j \in Jobs : pc[j] \in {"read", "write"} }

NotAllEmpty(r) ==
    \E f \in {"title", "artists", "url", "uri"} : Strip(r[f]) # << >>

\* C25: once the rows are normalized, the jobs are, in the order of the
\* rows, one job for each row that has a non-empty title, artist, source URL
\* or track URI after trimming, carrying the trimmed fields of that row, and
\* no job for any other row.
C25_DiscardIffAllEmpty ==
    (rowPc = "jobs") =>
        LET kept == SelectSeq(csvRows, NotAllEmpty)
        IN  /\ Len(jobs) = Len(kept)
            /\ \A i \in 1..Len(kept) :
                  /\ jobs[i].title = Strip(kept[i].title)
                  /\ jobs[i].artists = Strip(kept[i].artists)
                  /\ Truthy(jobs[i].source_url) => jobs[i].source_url = Strip(kept[i].url)
                  /\ Truthy(jobs[i].track_uri) => jobs[i].track_uri = Strip(kept[i].uri)
                  /\ Truthy(jobs[i].source_url) <=> Strip(kept[i].url) # << >>
                  /\ Truthy(jobs[i].track_uri) <=> Strip(kept[i].uri) # << >>

C25_Witness ==
    /\ rowPc = "jobs"
    /\ Len(csvRows) = MaxRows
    /\ csvRows[1] = [ title |-> << >>, artists |-> << >>, url |-> << " " >>, uri |-> << >> ]
    /\ Len(jobs) = MaxRows - 1
    /\ jobs[1].track_uri = << "s" >> /\ jobs[1].title = << >> /\ jobs[1].artists = << >>

\* The job carries a direct source reference.
HasReference(t) == Truthy(t.source_url) \/ Truthy(t.track_uri)

\* The source argument is a search specification.
IsSearch(arg) == arg # << >> /\ Head(arg) = "ytsearch1:"

\* C26: the source argument built for a job that carries a source URL is
\* that URL, for a job that carries only a track URI it is that URI, and in
\* both cases it is not a search specification; it is a search
\* specification exactly when the job carries neither.
C26_ReferenceUsedAsIs ==
    \A i \in 1..Len(srcArg) :
        srcArg[i] # Unset =>
            /\ Truthy(jobs[i].source_url) => srcArg[i] = jobs[i].source_url
            /\ (~Truthy(jobs[i].source_url) /\ Truthy(jobs[i].track_uri))
                  => srcArg[i] = jobs[i].track_uri
            /\ IsSearch(srcArg[i]) <=> ~HasReference(jobs[i])

C26_Witness ==
    \E i \in 1..Len(srcArg) :
        /\ jobs[i].source_url = << "u" >>
        /\ jobs[i].track_uri = << "s" >>
        /\ jobs[i].title # << >>
        /\ srcArg[i] = << "u" >>

\* Jobs without a reference, with and without a title and an artist.
UnreferencedJobs ==
    [ title : { << >>, << "T" >> }, artists : { << >>, << "A" >>, None },
      source_url : { None }, track_uri : { None } ]

\* C27: for every job without a direct reference, whatever its title and
\* artist and whether deep search is on or off, _build_search_query returns
\* a top-1 search specification ("ytsearch1:" and the query), and the source
\* argument of every such job that was resolved is that specification.
C27_ResolutionNeverFails ==
    /\ \A t \in UnreferencedJobs :
          /\ BuildSearchQuery(t) # None
          /\ IsSearch(BuildSearchQuery(t))
          /\ SourceArg(t) = BuildSearchQuery(t)
    /\ \A i \in 1..Len(srcArg) :
          (srcArg[i] # Unset /\ ~HasReference(jobs[i])) =>
              IsSearch(srcArg[i]) /\ srcArg[i] = BuildSearchQuery(jobs[i])

C27_Witness ==
    \E i \in 1..Len(srcArg) :
        /\ ~HasReference(jobs[i])
        /\ jobs[i].artists = << >>
        /\ ~cfg.deep_search
        /\ srcArg[i] = << "ytsearch1:", "T" >>

\* The separators of the artist string.
ArtistSeparators == { ",", "/", "&", "feat.", "ft." }

\* C28: the query built for a job without a reference starts with the
\* primary artist, which is the trimmed part of the artist string before its
\* first separator among comma, slash, ampersand, "feat." and "ft.".
C28_PrimaryArtistBeforeAnySeparator ==
    \A i \in 1..Len(srcArg) :
        (srcArg[i] # Unset /\ ~HasReference(jobs[i])) =>
            LET primary == Strip(BeforeFirst(jobs[i].artists, ArtistSeparators))
                query   == Strip(primary \o << " " >> \o jobs[i].title)
            IN  srcArg[i] =
                    << "ytsearch1:" >>
                    \o (IF cfg.deep_search THEN query \o << " ", "audio" >> ELSE query)

\* C29: once the worker thread of a started conversion has put its terminal
\* message on the queue, the poller eventually handles it and the controls
\* are enabled again, whatever the interleaving of the thread and the poller.
C29_TerminalEventuallyHandled == (thPc = "put") ~> controls

\* Number of terminal messages put on the queue so far.
Terminals == Count(q, "done") + Count(q, "error")

\* C30: a started conversion puts exactly one terminal message on the queue,
\* 'done' or 'error' and never both, once its thread has finished the call of
\* convert_from_csv; the terminal message is the last message of the run: no
\* 'status' or 'item' message follows it, and no job is still able to send
\* one.
C30_OneTerminalMessageLast ==
    /\ Terminals <= 1
    /\ (thPc \in {"put", "dead"}) <=> (Terminals = 1)
    /\ Terminals = 1 =>
          /\ q[Len(q)] \in {"done", "error"}
          /\ \A j \in Jobs : pc[j] \in {"new", "fin"}
          /\ (q[Len(q)] = "done") <=> (mainPc = "returned")

C30_Witness ==
    /\ thPc = "dead"
    /\ q[Len(q)] = "done"
    /\ Count(q, "item") >= 3
    /\ Count(q, "status") >= 2
    /\ \E j \in Jobs : pc[j] = "fin" /\ attempts[j] = 1

\* A conversion was started and its terminal message is not handled yet.
RunInFlight == thPc # "idle" /\ ~convDone

\* C31: between start_conversion and the handling of the terminal message of
\* that run the Convert button stays disabled, so that no second worker
\* thread can be started, and csv_path does not change.
C31_ControlsOffWhileInFlight ==
    [][RunInFlight => (~convertBtn /\ ~convertBtn' /\ csvPath' = csvPath)]_vars

\* C32: no two jobs of a run have retrieval subprocesses running at the same
\* time that write the same destination path.
C32_NoConcurrentSameDestination ==
    \A j \in Jobs : \A k \in Jobs :
        (j # k /\ procSt[j] = "alive" /\ procSt[k] = "alive")
            => DlTarget(j) # DlTarget(k)

\* C33: once the cancellation flag is set no retrieval subprocess is
\* spawned any more, also by a worker that passed the entry check of
\* _process_one before the flag was set.
C33_NoSpawnAfterCancel ==
    [][cancel => \A j \in Jobs : attempts'[j] = attempts[j] /\ (procSt[j] = "none" => procSt'[j] = "none")]_vars

\* Number of 'cancel_all' events emitted by the workers of the run.
RECURSIVE CancelAllCount(_)
CancelAllCount(n) ==
    IF n = 0 THEN 0 ELSE CancelAllCount(n - 1) + Count(ev[n], "cancel_all")

\* The flag was set while some job of the run had not finished: that job
\* reported neither success nor failure.
CancelledEarly ==
    /\ cancel
    /\ \E j \in Jobs : ~Has(j, "done") /\ \A e \in ErrorEvents : ~Has(j, e)

\* C34: a run that was cancelled before all its jobs finished has emitted
\* 'cancel_all' exactly once when it returns, however many workers were in
\* flight when the flag was set.
C34_CancelAllExactlyOnce ==
    (Returned /\ CancelledEarly) => CancelAllCount(Len(tracks)) = 1

\* A call of get_token was made in this step.
GetTokenCalled == lastCall'.seq # lastCall.seq

\* C35: get_token returns the held access token without a network call
\* exactly when a token is held and the time is more than 30 seconds before
\* its expiry; otherwise it refreshes when a refresh token is held and runs
\* the interactive authorisation only when none is held; after a successful
\* call the access token and the expiry are both set.
C35_CachedRefreshOrAuthorize ==
    [][GetTokenCalled =>
         LET held == accessTok # 0 /\ expiresAt - now > 30
         IN  /\ (lastCall'.path = "cached") <=> held
             /\ lastCall'.path = "cached" =>
                   /\ lastCall'.net = 0
                   /\ lastCall'.ok
                   /\ UNCHANGED << accessTok, refreshTok, expiresAt, store >>
             /\ (lastCall'.path = "refresh") <=> (~held /\ refreshTok # 0)
             /\ (lastCall'.path = "authorize") <=> (~held /\ refreshTok = 0)
             /\ lastCall'.ok => (accessTok' # 0 /\ expiresAt' > now)
    ]_vars

\* The held token is returned 40 seconds before its expiry, after an
\* earlier successful refresh.
C35_Witness ==
    /\ lastCall.path = "cached"
    /\ expiresAt - now = 40
    /\ now > 0
    /\ refreshTok # 0

\* C36: a refresh never loses the refresh token: a response without one
\* keeps the held one, a response with one replaces it and hands it to the
\* token store, and a refresh that fails with an HTTP error leaves the access
\* token, the refresh token and the expiry as they were.
C36_RefreshTokenNeverLost ==
    [][/\ refreshTok # 0 => refreshTok' # 0
       /\ (GetTokenCalled /\ lastCall'.path = "refresh") =>
             /\ ~lastCall'.ok => UNCHANGED << accessTok, refreshTok, expiresAt, store >>
             /\ (lastCall'.ok /\ lastCall'.rt = 0) => refreshTok' = refreshTok
             /\ (lastCall'.ok /\ lastCall'.rt # 0) =>
                   /\ refreshTok' = lastCall'.rt
                   /\ (store.given /\ store.keyring) => store'.tok = lastCall'.rt
    ]_vars

\* A refresh whose response had no refresh token, after one whose response
\* replaced the token taken from the store.
C36_Witness ==
    /\ lastCall.path = "refresh"
    /\ lastCall.ok
    /\ lastCall.rt = 0
    /\ refreshTok = 2
    /\ store = [ given |-> TRUE, keyring |-> TRUE, tok |-> 2 ]
    /\ now > 0

\* The call of _get / _post is over.
ApiCallOver == apiPc \in {"returned", "raised"}

\* C37: a call of _get or _post sends at most two HTTP requests, retrying an
\* answer 401 at most once, and an exception of the token supplier during
\* the explicit refresh does not prevent the retry: the second request is
\* sent all the same.
C37_RetryOnceDespiteSupplierError ==
    /\ wire <= 2
    /\ (ApiCallOver /\ supplierRaised) => sess = 2

\* C38: emit never raises and never blocks: every call ends with the record
\* queued or dropped; the queue never holds more than 1000 records, and a
\* record is dropped exactly when it arrives while the queue is full, the
\* queue then staying as it is.
C38_LogHandOffNeverBlocks ==
    [][/\ logLen <= 1000 /\ logLen' <= 1000
       /\ lastEmit'.seq # lastEmit.seq =>
             /\ lastEmit'.res \in {"queued", "dropped"}
             /\ (lastEmit'.res = "dropped") <=> (logLen = 1000)
             /\ lastEmit'.res = "dropped" => logLen' = logLen
             /\ lastEmit'.res = "queued" => logLen' = logLen + 1
    ]_vars

\* A record arrived while the window was paused and the queue was full.
C38_Witness ==
    /\ paused
    /\ logLen = LogQueueMax
    /\ lastEmit.res = "dropped"

====
